---- MODULE Spec2Model ----
(***************************************************************************)
(* AutoencoderKLWrapper (ltx_video/models/autoencoders/vae.py): the tiling *)
(* configuration, the spatial (height/width) and temporal (z) tiled encode *)
(* and decode, and the blend operator.                                     *)
(*                                                                         *)
(* A tensor is modelled by its extents <<T, H, W>> (batch and channel are  *)
(* never sliced or concatenated by the wrapper); the blend operator is     *)
(* modelled on values, one number per slice of the blended axis.           *)
(* tile_overlap_factor is stored as its numerator over OverlapDen, so that *)
(* int(size * factor) is exact integer arithmetic.                         *)
(***************************************************************************)
EXTENDS Integers, Sequences, FiniteSets, TLC

VARIABLES
    tile_sample_min_size,   \* self.tile_sample_min_size
    tile_latent_min_size,   \* self.tile_latent_min_size
    tile_overlap_factor,    \* self.tile_overlap_factor, in units of 1/OverlapDen
    use_z_tiling,           \* self.use_z_tiling
    use_hw_tiling,          \* self.use_hw_tiling
    z_sample_size,          \* self.z_sample_size
    decoder_params,         \* "timestep" in self.decoder_params
    last,                   \* what the most recent call did and returned
    blend_a, blend_b, blend_extent_arg, blend_out,   \* one blend call, on values
    pc, job, produced, folded, seg_done, seg_folded  \* one tiled call, step by step

vars == <<tile_sample_min_size, tile_latent_min_size, tile_overlap_factor,
          use_z_tiling, use_hw_tiling, z_sample_size, decoder_params,
          last, blend_a, blend_b, blend_extent_arg, blend_out,
          pc, job, produced, folded, seg_done, seg_folded>>

policy_vars == <<tile_sample_min_size, tile_latent_min_size, tile_overlap_factor,
                 use_z_tiling, use_hw_tiling, z_sample_size>>

blend_vars == <<blend_a, blend_b, blend_extent_arg, blend_out>>

step_vars == <<pc, job, produced, folded, seg_done, seg_folded>>

---------------------------------------------------------------------------
(* Bounds of the model *)

\* spatial extents of the volumes: multiples of SpatialUnit up to this many
MaxSpatialUnits == 4
\* time extents of the volumes: 1 + multiples of the time step up to this many
MaxTimeSteps == 3
\* z_sample_size arguments: 1, the multiples of 4 up to 4 * MaxZSteps, and
\* the number after each multiple
MaxZSteps == 1
\* length of the value sequences handed to the blend operator
MaxLen == 3
\* requested blend extents 0 .. MaxBlend
MaxBlend == 3
\* slice values 0 .. MaxVal
MaxVal == 1

(* Program constants *)

SpatialScale == 32      \* int(sample_size / 32)
TimeScale == 8          \* tile_latent_min_tsize * 8
OverlapDen == 4         \* 0.25 = 1 / 4
ZOverlap == 1           \* tile_overlap_factor = 0.25 of the temporal paths
DefaultSampleSize == 512   \* sample_size=512
DefaultOverlap == 1     \* overlap_factor = 0.25

---------------------------------------------------------------------------
(* Arithmetic of the source *)

Min(a, b) == IF a < b THEN a ELSE b

Max(a, b) == IF a > b THEN a ELSE b

\* range(0, n, step) for step > 0, as a sequence
range(n, step) == [k \in 1 .. ((n + step - 1) \div step) |-> (k - 1) * step]

\* extent of x[start : start + size] along an axis of extent n
slice_len(n, start, size) == Max(0, Min(n, start + size) - Min(n, start))

\* int(size * factor), factor = q / OverlapDen
int_mul(size, q) == (size * q) \div OverlapDen

\* int(size * (1 - factor))
int_mul_compl(size, q) == (size * (OverlapDen - q)) \div OverlapDen

RECURSIVE SumTo(_, _)
\* f[1] + ... + f[n]
SumTo(f, n) == IF n <= 0 THEN 0 ELSE f[n] + SumTo(f, n - 1)

RECURSIVE Flatten(_)
Flatten(ss) == IF ss = <<>> THEN <<>> ELSE Head(ss) \o Flatten(Tail(ss))

---------------------------------------------------------------------------
(* The blend operator, on values: a tile is the sequence of its slices     *)
(* along the blended axis, a slice value the rational <<num, den>>.        *)

\* seq[i] with Python's indexing: 0-based, a negative i counts from the end
py_index(s, i) == IF i < 0 THEN s[Len(s) + i + 1] ELSE s[i + 1]

\* blend_extent = min(a.shape[axis], b.shape[axis], blend_extent)
blend_clamp(a_extent, b_extent, blend_extent) ==
    Min(Min(a_extent, b_extent), blend_extent)

\* the two weights exchanged
blend_slice_swapped(av, bv, z, e) ==
    <<av[1] * bv[2] * z + bv[1] * av[2] * (e - z), av[2] * bv[2] * e>>

\* a[-e + z] * (1 - z / e) + b[z] * (z / e)
blend_slice(av, bv, z, e) ==
    <<av[1] * bv[2] * (e - z) + bv[1] * av[2] * z, av[2] * bv[2] * e>>

RECURSIVE blend_loop(_, _, _, _)
\* for z in range(blend_extent): b[z] = ...   (b is written in place)
blend_loop(a, b, e, z) ==
    IF z >= e THEN b
    ELSE blend_loop(a,
                    [b EXCEPT ![z + 1] =
                        blend_slice(py_index(a, z - e), py_index(b, z), z, e)],
                    e, z + 1)

blend_z(a, b, blend_extent) ==
    blend_loop(a, b, blend_clamp(Len(a), Len(b), blend_extent), 0)

blend_v(a, b, blend_extent) ==
    blend_loop(a, b, blend_clamp(Len(a), Len(b), blend_extent), 0)

blend_h(a, b, blend_extent) ==
    blend_loop(a, b, blend_clamp(Len(a), Len(b), blend_extent), 0)

\* One blend call as the tiled paths issue it, on extents: tile a (the
\* previous tile) and tile b (the current one) along `axis`; org is the
\* origin of the tile's input slice, lead the leading slices dropped from
\* the transform's output before the blend.
blend_call(axis, dir, seg, a_org, a_lead, a_ext, b_org, b_lead, b_ext, blend_extent) ==
    [axis |-> axis, dir |-> dir, seg |-> seg,
     a_org |-> a_org, a_lead |-> a_lead, a_ext |-> a_ext,
     b_org |-> b_org, b_lead |-> b_lead, b_ext |-> b_ext,
     req |-> blend_extent,
     e |-> blend_clamp(a_ext, b_ext, blend_extent)]

---------------------------------------------------------------------------
(* The codec transform: only its extents are modelled.  It scales height   *)
(* and width by SpatialScale and time by TimeScale, keeping the first      *)
(* frame as a latent frame of its own: 8 n + 1 frames are n + 1 latent     *)
(* frames, which is what the temporal windows of 8 z + 1 frames and of     *)
(* z + 1 latent frames are cut for.                                        *)

encoder(x) ==
    <<(x[1] - 1) \div TimeScale + 1, x[2] \div SpatialScale, x[3] \div SpatialScale>>

decoder(z) ==
    <<(z[1] - 1) * TimeScale + 1, z[2] * SpatialScale, z[3] * SpatialScale>>

\* One call of the transform: the tile x cut at (i, j) of segment seg, the
\* keyword arguments it is called with, whether the latent normalisation
\* step runs around it, its output, the crop kept of it and where the crop
\* is put in the composite.
transform_call(dir, seg, i, j, x, target, timestep, norm, out, crop, pos) ==
    [dir |-> dir, seg |-> seg, i |-> i, j |-> j, x |-> x,
     target |-> target, timestep |-> timestep, norm |-> norm,
     out |-> out, crop |-> crop, pos |-> pos]

---------------------------------------------------------------------------
(* Spatial tiling *)

\* range(0, x.shape[3], overlap_size) and range(0, x.shape[4], overlap_size)
tile_origins(extent, overlap_size) == range(extent, overlap_size)

\* The two loops shared by _hw_tiled_encode and _hw_tiled_decode: cut the
\* grid, transform every tile, then blend each tile with the tile above and
\* the tile to the left, crop it to row_limit and concatenate.
hw_tiles(dir, seg, x, tile_size, overlap_size, blend_extent, row_limit, target) ==
    LET rows_i == tile_origins(x[2], overlap_size)
        cols_j == tile_origins(x[3], overlap_size)
        R == Len(rows_i)
        C == Len(cols_j)
        tin == [r \in 1 .. R, c \in 1 .. C |->
                  <<x[1], slice_len(x[2], rows_i[r], tile_size),
                          slice_len(x[3], cols_j[c], tile_size)>>]
        tout == [r \in 1 .. R, c \in 1 .. C |->
                  IF dir = "encode" THEN encoder(tin[r, c]) ELSE decoder(tin[r, c])]
        crop_h == [r \in 1 .. R |-> Min(tout[r, 1][2], row_limit)]
        crop_w == [c \in 1 .. C |-> Min(tout[1, c][3], row_limit)]
        tile(r, c) ==
            transform_call(dir, seg, rows_i[r], cols_j[c], tin[r, c], target,
                           dir = "decode", FALSE, tout[r, c],
                           <<tout[r, c][1], crop_h[r], crop_w[c]>>,
                           <<0, SumTo(crop_h, r - 1), SumTo(crop_w, c - 1)>>)
        blends(r, c) ==
            (IF r > 1
             THEN <<blend_call("v", dir, seg, rows_i[r - 1], 0, tout[r - 1, c][2],
                               rows_i[r], 0, tout[r, c][2], blend_extent)>>
             ELSE <<>>)
            \o
            (IF c > 1
             THEN <<blend_call("h", dir, seg, cols_j[c - 1], 0, tout[r, c - 1][3],
                               cols_j[c], 0, tout[r, c][3], blend_extent)>>
             ELSE <<>>)
    IN  [tiles |-> [n \in 1 .. R * C |-> tile((n - 1) \div C + 1, ((n - 1) % C) + 1)],
         blends |-> Flatten([n \in 1 .. R * C |->
                               blends((n - 1) \div C + 1, ((n - 1) % C) + 1)]),
         out |-> <<tout[1, 1][1], SumTo(crop_h, R), SumTo(crop_w, C)>>,
         err |-> "none"]

\* consecutive tiles cut with no overlap
hw_encode_overlap_none == tile_sample_min_size

hw_encode_overlap_size == int_mul_compl(tile_sample_min_size, tile_overlap_factor)

hw_encode_blend_extent == int_mul(tile_latent_min_size, tile_overlap_factor)

hw_decode_overlap_size == int_mul_compl(tile_latent_min_size, tile_overlap_factor)

hw_decode_blend_extent == int_mul(tile_sample_min_size, tile_overlap_factor)

_hw_tiled_encode(x, seg) ==
    hw_tiles("encode", seg, x, tile_sample_min_size, hw_encode_overlap_size,
             hw_encode_blend_extent,
             tile_latent_min_size - hw_encode_blend_extent, <<>>)

\* The decoder is called with timestep = timestep whatever its signature: a
\* decoder with no such parameter raises TypeError at the first tile.
_hw_tiled_decode(z, target_shape, seg) ==
    LET all == hw_tiles("decode", seg, z, tile_latent_min_size,
                        hw_decode_overlap_size, hw_decode_blend_extent,
                        tile_sample_min_size - hw_decode_blend_extent,
                        <<target_shape[1], tile_sample_min_size,
                          tile_sample_min_size>>)
    IN  IF decoder_params THEN all
        ELSE [tiles |-> <<all.tiles[1]>>, blends |-> <<>>, out |-> <<>>,
              err |-> "TypeError"]

---------------------------------------------------------------------------
(* The untiled transform *)

_encode(x, seg) ==
    [tiles |-> <<transform_call("encode", seg, 0, 0, x, <<>>, FALSE, TRUE,
                                encoder(x), encoder(x), <<0, 0, 0>>)>>,
     blends |-> <<>>, out |-> encoder(x), err |-> "none"]

\* timestep is forwarded only if "timestep" in self.decoder_params
_decode(z, target_shape, seg) ==
    [tiles |-> <<transform_call("decode", seg, 0, 0, z, target_shape,
                                decoder_params, TRUE,
                                decoder(z), decoder(z), <<0, 0, 0>>)>>,
     blends |-> <<>>, out |-> decoder(z), err |-> "none"]

---------------------------------------------------------------------------
(* Temporal tiling, and the dispatch of encode and decode *)

\* One temporal segment: the window x cut at time org, the target shape
\* handed to the delegate, the delegate's output time extent, the leading
\* frames dropped, the extent left, the crop kept and its place in the
\* composite.
segment(seg, org, x, target, delegate, out_t, lead, ext, crop, pos) ==
    [seg |-> seg, org |-> org, x |-> x, target |-> target,
     delegate |-> delegate, out_t |-> out_t, lead |-> lead, ext |-> ext,
     crop |-> crop, pos |-> pos]

\* self.use_z_tiling and z.shape[2] > (self.z_sample_size + 1) > 1
z_tiling_engaged(x) ==
    use_z_tiling /\ x[1] > z_sample_size + 1 /\ z_sample_size + 1 > 1

\* The second loop of the temporal paths: blend every segment after the
\* first with its predecessor, crop, concatenate along time.  subs[k] is
\* what the delegate returned for window k.
z_compose(dir, x, origins, window, target, subs, blend_extent, t_limit) ==
    LET N == Len(origins)
        lead == [k \in 1 .. N |-> IF origins[k] > 0 THEN 1 ELSE 0]
        ext == [k \in 1 .. N |-> Max(0, subs[k].out[1] - lead[k])]
        crop == [k \in 1 .. N |->
                   IF k > 1 THEN Min(ext[k], t_limit)
                   ELSE Min(ext[k], t_limit + 1)]
    IN  [path |-> "z",
         tiles |-> Flatten([k \in 1 .. N |-> subs[k].tiles]),
         segs |-> [k \in 1 .. N |->
                     segment(k, origins[k], window[k], target,
                             IF use_hw_tiling THEN "hw" ELSE "direct",
                             subs[k].out[1], lead[k], ext[k], crop[k],
                             SumTo(crop, k - 1))],
         blends |-> Flatten([k \in 1 .. N |-> subs[k].blends])
                    \o [k \in 1 .. N - 1 |->
                          blend_call("z", dir, 0, origins[k], lead[k], ext[k],
                                     origins[k + 1], lead[k + 1], ext[k + 1],
                                     blend_extent)],
         out |-> <<SumTo(crop, N), subs[1].out[2], subs[1].out[3]>>,
         err |-> "none"]

z_encode_overlap_size == int_mul_compl(z_sample_size * TimeScale, ZOverlap)

z_encode_blend_extent == int_mul(z_sample_size, ZOverlap)

z_decode_overlap_size == int_mul_compl(z_sample_size, ZOverlap)

z_decode_blend_extent == int_mul(z_sample_size * TimeScale, ZOverlap)

\* moments = self._hw_tiled_encode(z) if self.use_hw_tiling and
\* z.shape[2] > 1 else self._encode(z)
encode_uses_hw(x) == use_hw_tiling /\ x[1] > 1

\* the qualification of encode, on decode
decode_uses_hw_above_one_frame(z) == use_hw_tiling /\ z[1] > 1

\* decoded = self._hw_tiled_decode(z, ...) if self.use_hw_tiling else
\* self._decode(z, ...)
decode_uses_hw(z) == use_hw_tiling

\* for i in range(0, T, overlap_size)
z_origins(op, x) ==
    range(x[1], IF op = "encode" THEN z_encode_overlap_size
                ELSE z_decode_overlap_size)

\* z[:, :, i : i + tile_sample_min_tsize + 1] on encode,
\* z[:, :, i : i + tile_latent_min_tsize + 1] on decode
z_window(op, x, i) ==
    <<slice_len(x[1], i, IF op = "encode" THEN z_sample_size * TimeScale + 1
                         ELSE z_sample_size + 1),
      x[2], x[3]>>

encode(x) ==
    IF z_tiling_engaged(x)
    THEN LET origins == z_origins("encode", x)
             window == [k \in 1 .. Len(origins) |->
                          z_window("encode", x, origins[k])]
             subs == [k \in 1 .. Len(origins) |->
                        IF use_hw_tiling THEN _hw_tiled_encode(window[k], k)
                        ELSE _encode(window[k], k)]
         IN  z_compose("encode", x, origins, window, <<>>, subs,
                       z_encode_blend_extent,
                       z_sample_size - z_encode_blend_extent)
    ELSE LET r == IF encode_uses_hw(x) THEN _hw_tiled_encode(x, 0)
                  ELSE _encode(x, 0)
         IN  [path |-> IF encode_uses_hw(x) THEN "hw" ELSE "direct",
              tiles |-> r.tiles, segs |-> <<>>, blends |-> r.blends,
              out |-> r.out, err |-> r.err]

\* The target shape the temporal decode hands to its delegate for a window:
\* target_shape_split is computed and target_shape is passed.
z_decode_target(target_shape, window) == target_shape

decode(z, target_shape) ==
    IF target_shape = <<>>
    THEN [path |-> "none", tiles |-> <<>>, segs |-> <<>>, blends |-> <<>>,
          out |-> <<>>, err |-> "AssertionError"]
    ELSE IF z_tiling_engaged(z)
    THEN LET origins == z_origins("decode", z)
             window == [k \in 1 .. Len(origins) |->
                          z_window("decode", z, origins[k])]
             subs == [k \in 1 .. Len(origins) |->
                        IF use_hw_tiling
                        THEN _hw_tiled_decode(window[k],
                                 z_decode_target(target_shape, window[k]), k)
                        ELSE _decode(window[k],
                                 z_decode_target(target_shape, window[k]), k)]
             all == z_compose("decode", z, origins, window,
                              z_decode_target(target_shape, window[1]), subs,
                              z_decode_blend_extent,
                              z_sample_size * TimeScale - z_decode_blend_extent)
         IN  IF subs[1].err = "none" THEN all
             ELSE [path |-> "z", tiles |-> subs[1].tiles,
                   segs |-> <<segment(1, origins[1], window[1],
                                      z_decode_target(target_shape, window[1]),
                                      "hw", 0, 0, 0, 0, 0)>>,
                   blends |-> <<>>, out |-> <<>>, err |-> subs[1].err]
    ELSE LET r == IF decode_uses_hw(z) THEN _hw_tiled_decode(z, target_shape, 0)
                  ELSE _decode(z, target_shape, 0)
         IN  [path |-> IF decode_uses_hw(z) THEN "hw" ELSE "direct",
              tiles |-> r.tiles, segs |-> <<>>, blends |-> r.blends,
              out |-> r.out, err |-> r.err]

---------------------------------------------------------------------------
(* Inputs *)

\* sample_size: the default, and one that is no multiple of 128
SampleSizes == {DefaultSampleSize, 320}

\* overlap_factor: 0, 0.25 and 0.5
OverlapFactors == {0, DefaultOverlap, 2}

ZSizes == {1} \cup {4 * k : k \in 0 .. MaxZSteps} \cup {4 * k + 1 : k \in 1 .. MaxZSteps}

\* latent heights and widths: the multiples of 8 (256 samples), and 13,
\* one past the decode stride of the default geometry
LatentExtents == {8 * k : k \in 1 .. MaxSpatialUnits} \cup {13}

\* latent time extents 1, 3, 5, ... (1, 17, 33, ... frames)
LatentTimes == {2 * k + 1 : k \in 0 .. MaxTimeSteps}

LatentVolumes ==
    {<<t, h, w>> : t \in LatentTimes, h \in LatentExtents, w \in {8}}
    \cup {<<t, h, h>> : t \in LatentTimes, h \in LatentExtents}

\* sample heights and widths: those of the latent extents, and 400, below
\* the default tile and above its stride
SampleExtents == {SpatialScale * h : h \in LatentExtents} \cup {400}

SampleVolumes ==
    {<<TimeScale * (t - 1) + 1, h, w>> :
        t \in LatentTimes, h \in SampleExtents, w \in {SpatialScale * 8}}
    \cup {<<TimeScale * (t - 1) + 1, h, h>> : t \in LatentTimes, h \in SampleExtents}

\* what the most recent call did: op, its arguments, and the result record
call(op, x, target, r) ==
    [op |-> op, x |-> x, target |-> target, path |-> r.path, tiles |-> r.tiles,
     segs |-> r.segs, blends |-> r.blends, out |-> r.out, err |-> r.err]

no_result(err) ==
    [path |-> "none", tiles |-> <<>>, segs |-> <<>>, blends |-> <<>>,
     out |-> <<>>, err |-> err]

\* no call is in progress and the last result has been handed back
idle == call("idle", <<>>, <<>>, no_result("none"))

---------------------------------------------------------------------------
(* State machine: calls are synchronous and never overlap, so every call   *)
(* starts from idle, runs its whole handler and leaves its outcome in      *)
(* `last` until Return hands it back to the caller.                        *)

PolicyInit ==
    /\ tile_sample_min_size \in SampleSizes
    /\ tile_latent_min_size = tile_sample_min_size \div SpatialScale
    /\ tile_overlap_factor = DefaultOverlap
    /\ use_z_tiling = FALSE
    /\ use_hw_tiling = FALSE
    /\ z_sample_size = 1
    /\ decoder_params \in BOOLEAN

BlendIdle ==
    /\ blend_a = <<>>
    /\ blend_b = <<>>
    /\ blend_extent_arg = 0
    /\ blend_out = [called |-> "none", value |-> <<>>]

StepIdle ==
    /\ pc = "idle"
    /\ job = <<>>
    /\ produced = 0
    /\ folded = 0
    /\ seg_done = 0
    /\ seg_folded = 0

Init ==
    /\ PolicyInit
    /\ last = idle
    /\ BlendIdle
    /\ StepIdle

set_tiling_params(sample_size, overlap_factor) ==
    /\ last = idle
    /\ tile_sample_min_size' = sample_size
    /\ tile_latent_min_size' = sample_size \div SpatialScale
    /\ tile_overlap_factor' = overlap_factor
    /\ last' = call("set_tiling_params", <<sample_size, overlap_factor>>, <<>>,
                    no_result("none"))
    /\ UNCHANGED <<use_z_tiling, use_hw_tiling, z_sample_size, decoder_params,
                   blend_vars, step_vars>>

\* both fields are assigned before the assertion is evaluated
enable_z_tiling(z) ==
    /\ last = idle
    /\ use_z_tiling' = (z > 1)
    /\ z_sample_size' = z
    /\ last' = call("enable_z_tiling", <<z>>, <<>>,
                    no_result(IF z % 4 = 0 \/ z = 1 THEN "none"
                              ELSE "AssertionError"))
    /\ UNCHANGED <<tile_sample_min_size, tile_latent_min_size,
                   tile_overlap_factor, use_hw_tiling, decoder_params,
                   blend_vars, step_vars>>

disable_z_tiling ==
    /\ last = idle
    /\ use_z_tiling' = FALSE
    /\ last' = call("disable_z_tiling", <<>>, <<>>, no_result("none"))
    /\ UNCHANGED <<tile_sample_min_size, tile_latent_min_size,
                   tile_overlap_factor, use_hw_tiling, z_sample_size,
                   decoder_params, blend_vars, step_vars>>

enable_hw_tiling ==
    /\ last = idle
    /\ use_hw_tiling' = TRUE
    /\ last' = call("enable_hw_tiling", <<>>, <<>>, no_result("none"))
    /\ UNCHANGED <<tile_sample_min_size, tile_latent_min_size,
                   tile_overlap_factor, use_z_tiling, z_sample_size,
                   decoder_params, blend_vars, step_vars>>

disable_hw_tiling ==
    /\ last = idle
    /\ use_hw_tiling' = FALSE
    /\ last' = call("disable_hw_tiling", <<>>, <<>>, no_result("none"))
    /\ UNCHANGED <<tile_sample_min_size, tile_latent_min_size,
                   tile_overlap_factor, use_z_tiling, z_sample_size,
                   decoder_params, blend_vars, step_vars>>

Encode(x) ==
    /\ last = idle
    /\ last' = call("encode", x, <<>>, encode(x))
    /\ UNCHANGED <<policy_vars, decoder_params, blend_vars, step_vars>>

Decode(z, target_shape) ==
    /\ last = idle
    /\ last' = call("decode", z, target_shape, decode(z, target_shape))
    /\ UNCHANGED <<policy_vars, decoder_params, blend_vars, step_vars>>

Return ==
    /\ last # idle
    /\ last' = idle
    /\ UNCHANGED <<policy_vars, decoder_params, blend_vars, step_vars>>

Next ==
    \/ \E s \in SampleSizes, q \in OverlapFactors : set_tiling_params(s, q)
    \/ \E z \in ZSizes : enable_z_tiling(z)
    \/ disable_z_tiling
    \/ enable_hw_tiling
    \/ disable_hw_tiling
    \/ \E x \in SampleVolumes : Encode(x)
    \/ \E z \in LatentVolumes : Decode(z, decoder(z))
    \/ \E z \in LatentVolumes : Decode(z, <<>>)
    \/ Return

Spec == Init /\ [][Next]_vars

---------------------------------------------------------------------------
(* Properties of the tiled encode and decode *)

Range(f) == {f[k] : k \in DOMAIN f}

Returned == last.op \in {"encode", "decode"} /\ last.err = "none"

\* the extents the untiled transform returns for the whole volume
WholeVolumeOut == IF last.op = "encode" THEN encoder(last.x) ELSE decoder(last.x)

\* C1: a tiled path (spatial, temporal, temporal over spatial) of encode or
\* decode returns a volume whose time, height and width extents are those
\* the untiled transform returns for the whole volume, whatever the tile
\* geometry.
C1_ShapePreservation ==
    (Returned /\ last.path \in {"hw", "z"}) => last.out = WholeVolumeOut

\* a volume below one tile in every tiled axis
SmallVolume ==
    IF last.op = "encode"
    THEN /\ last.x[2] < tile_sample_min_size
         /\ last.x[3] < tile_sample_min_size
         /\ (use_z_tiling => last.x[1] <= z_sample_size + 1)
    ELSE /\ last.x[2] < tile_latent_min_size
         /\ last.x[3] < tile_latent_min_size
         /\ (use_z_tiling => last.x[1] <= z_sample_size + 1)

\* what the call does with all tiling disabled
Untiled ==
    IF last.op = "encode" THEN _encode(last.x, 0)
    ELSE _decode(last.x, last.target, 0)

\* the tile a call of the transform is given, and its keyword arguments
CallArgs(c) == <<c.dir, c.x, c.target, c.timestep>>

\* C2: with tiling enabled, a volume below one tile in every tiled axis is
\* handed to the transform once, whole, with the arguments of the untiled
\* call, and the transform's result is returned as it is.
C2_NoOpTiling ==
    (/\ last.op \in {"encode", "decode"}
     /\ last.path # "none"
     /\ (use_hw_tiling \/ use_z_tiling)
     /\ SmallVolume)
    => /\ [k \in DOMAIN last.tiles |-> CallArgs(last.tiles[k])]
            = [k \in DOMAIN Untiled.tiles |-> CallArgs(Untiled.tiles[k])]
       /\ last.out = Untiled.out

\* C3: the stored z_sample_size is 1 or a positive multiple of 4, in every
\* state, also after a call of enable_z_tiling that failed.
C3_ZTileSizeValid ==
    z_sample_size = 1 \/ (z_sample_size > 0 /\ z_sample_size % 4 = 0)

\* C4: a decoder that declares no timestep parameter is never called with a
\* timestep argument.
C4_TimestepForwarding ==
    \A c \in Range(last.tiles) :
        (c.dir = "decode" /\ c.timestep) => decoder_params

\* the scenario of C6: 17 x 1024 x 1024, sample tile 512, overlap 0.25,
\* spatial tiling on, temporal tiling off
C6_Scenario ==
    /\ last.op = "encode"
    /\ last.x = <<17, 1024, 1024>>
    /\ tile_sample_min_size = DefaultSampleSize
    /\ tile_overlap_factor = DefaultOverlap
    /\ use_hw_tiling
    /\ ~use_z_tiling

GridOrigins == {<<c.i, c.j>> : c \in Range(last.tiles)}

\* C6 as stated: the scenario runs the transform on a 2 x 2 grid of tiles
\* with origins stepping by 384, and blends with extent 4.
C6_Grid2x2 ==
    C6_Scenario =>
        /\ Len(last.tiles) = 4
        /\ GridOrigins = {0, 384} \X {0, 384}
        /\ \A b \in Range(last.blends) : b.req = 4

\* C6 amended: the scenario runs the transform on a 3 x 3 grid of tiles, at
\* origins 0, 384 and 768 in height and in width, and every blend is
\* requested with extent 4: 6 vertical and 6 horizontal blends.
C6_Grid3x3 ==
    C6_Scenario =>
        /\ Len(last.tiles) = 9
        /\ GridOrigins = {0, 384, 768} \X {0, 384, 768}
        /\ Len(last.blends) = 12
        /\ \A b \in Range(last.blends) : b.req = 4 /\ b.e = 4

C6_Witness == C6_Scenario /\ last.path = "hw" /\ last.err = "none"

\* C7: every segment of a temporally tiled decode hands its delegate the
\* caller's target shape with the time extent replaced by the segment's
\* latent time length times 8.
C7_SegmentTarget ==
    (last.op = "decode" /\ last.path = "z") =>
        \A g \in Range(last.segs) :
            g.target = <<g.x[1] * TimeScale, last.target[2], last.target[3]>>

\* a call of encode or decode that went past its precondition and did not
\* engage temporal tiling
NotTemporal ==
    /\ last.op \in {"encode", "decode"}
    /\ last.path \in {"hw", "direct"}

\* C8 as stated: without temporal tiling, encode and decode go to the
\* spatial tiling only if it is enabled and the time extent is above 1.
C8_HwOnlyAboveOneFrame ==
    (NotTemporal /\ last.path = "hw") => (use_hw_tiling /\ last.x[1] > 1)

\* C8 amended: without temporal tiling, encode goes to the spatial tiling
\* exactly when it is enabled and the time extent is above 1; decode goes
\* to it exactly when it is enabled, whatever the time extent.
C8_HwQualification ==
    NotTemporal =>
        IF last.op = "encode"
        THEN (last.path = "hw") <=> (use_hw_tiling /\ last.x[1] > 1)
        ELSE (last.path = "hw") <=> use_hw_tiling

C8_Witness ==
    /\ NotTemporal
    /\ last.op = "decode"
    /\ last.x[1] = 1
    /\ last.path = "hw"

AxisScale(axis) == IF axis = "z" THEN TimeScale ELSE SpatialScale

\* slice a_ext - e + k of tile a and slice k of tile b are the same
\* coordinate of the output volume
BlendAligned(b) ==
    b.e > 0 =>
        IF b.dir = "encode"
        THEN b.a_org + AxisScale(b.axis) * (b.a_lead + b.a_ext - b.e)
                = b.b_org + AxisScale(b.axis) * b.b_lead
        ELSE b.a_org * AxisScale(b.axis) + b.a_lead + b.a_ext - b.e
                = b.b_org * AxisScale(b.axis) + b.b_lead

\* a crop put at pos starts at the output coordinate of the tile cut at org
PlaceAligned(dir, axis, org, lead, crop, pos) ==
    crop > 0 =>
        IF dir = "encode" THEN AxisScale(axis) * (pos - lead) = org
        ELSE pos = org * AxisScale(axis) + lead

\* C10: every blend cross-fades slices of the same output coordinate, and
\* every cropped tile is put where the previous one ended, which is the
\* coordinate it was cut at.
C10_BlendAlignment ==
    Returned =>
        /\ \A b \in Range(last.blends) : BlendAligned(b)
        /\ \A c \in Range(last.tiles) :
              (last.path = "hw" \/ (last.path = "z" /\ use_hw_tiling)) =>
                  /\ PlaceAligned(c.dir, "v", c.i, 0, c.crop[2], c.pos[2])
                  /\ PlaceAligned(c.dir, "h", c.j, 0, c.crop[3], c.pos[3])
        /\ \A g \in Range(last.segs) :
              PlaceAligned(last.op, "z", g.org, g.lead, g.crop, g.pos)


---------------------------------------------------------------------------
(* The blend operator on its own: any two tiles and any requested extent   *)

Values == {<<n, 1>> : n \in 0 .. MaxVal}

ValueSeqs == UNION {[1 .. n -> Values] : n \in 0 .. MaxLen}

BlendInit ==
    /\ tile_sample_min_size = DefaultSampleSize
    /\ tile_latent_min_size = DefaultSampleSize \div SpatialScale
    /\ tile_overlap_factor = DefaultOverlap
    /\ use_z_tiling = FALSE
    /\ use_hw_tiling = FALSE
    /\ z_sample_size = 1
    /\ decoder_params = TRUE
    /\ last = idle
    /\ StepIdle
    /\ blend_a \in ValueSeqs
    /\ blend_b \in ValueSeqs
    /\ blend_extent_arg \in 0 .. MaxBlend
    /\ blend_out = [called |-> "none", value |-> <<>>]

BlendZ ==
    /\ blend_out.called = "none"
    /\ blend_out' = [called |-> "blend_z",
                     value |-> blend_z(blend_a, blend_b, blend_extent_arg)]
    /\ UNCHANGED <<policy_vars, decoder_params, last, blend_a, blend_b,
                   blend_extent_arg, step_vars>>

BlendV ==
    /\ blend_out.called = "none"
    /\ blend_out' = [called |-> "blend_v",
                     value |-> blend_v(blend_a, blend_b, blend_extent_arg)]
    /\ UNCHANGED <<policy_vars, decoder_params, last, blend_a, blend_b,
                   blend_extent_arg, step_vars>>

BlendH ==
    /\ blend_out.called = "none"
    /\ blend_out' = [called |-> "blend_h",
                     value |-> blend_h(blend_a, blend_b, blend_extent_arg)]
    /\ UNCHANGED <<policy_vars, decoder_params, last, blend_a, blend_b,
                   blend_extent_arg, step_vars>>

BlendNext == BlendZ \/ BlendV \/ BlendH

BlendSpec == BlendInit /\ [][BlendNext]_vars

\* equality of two rationals <<num, den>>
RatEq(p, q) == p[1] * q[2] = q[1] * p[2]

Blended == blend_out.called # "none"

\* C5 as stated: for k below min(blend_extent, extent(a), extent(b)), slice
\* k of the result is a[extent(a) - blend_extent + k] * (1 - k/blend_extent)
\* + b[k] * (k/blend_extent), with the requested blend_extent in the index
\* and in the weights; slices from blend_extent on are those of b.
C5_BlendUnclamped ==
    Blended =>
        LET E == blend_extent_arg
            n == Min(E, Min(Len(blend_a), Len(blend_b)))
        IN  /\ Len(blend_out.value) = Len(blend_b)
            /\ \A k \in 0 .. n - 1 :
                  Len(blend_a) - E + k >= 0 =>
                      RatEq(blend_out.value[k + 1],
                            <<blend_a[Len(blend_a) - E + k + 1][1] * (E - k)
                                + blend_b[k + 1][1] * k, E>>)
            /\ \A k \in E .. Len(blend_b) - 1 :
                  blend_out.value[k + 1] = blend_b[k + 1]

\* C5 amended: with e = min(blend_extent, extent(a), extent(b)), slice k of
\* the result, for k below e, is a[extent(a) - e + k] * (1 - k/e)
\* + b[k] * (k/e), the clamped extent e in the index and in the weights;
\* slices from e on are those of b.
C5_BlendClamped ==
    Blended =>
        LET e == Min(blend_extent_arg, Min(Len(blend_a), Len(blend_b)))
        IN  /\ Len(blend_out.value) = Len(blend_b)
            /\ \A k \in 0 .. e - 1 :
                  RatEq(blend_out.value[k + 1],
                        <<blend_a[Len(blend_a) - e + k + 1][1] * (e - k)
                            + blend_b[k + 1][1] * k, e>>)
            /\ \A k \in e .. Len(blend_b) - 1 :
                  blend_out.value[k + 1] = blend_b[k + 1]

\* a blend whose requested extent is above the extent of b, with slices of
\* a that differ
C5_Witness ==
    /\ Blended
    /\ blend_extent_arg > Len(blend_b)
    /\ Len(blend_b) >= 2
    /\ Len(blend_a) > Len(blend_b)
    /\ blend_a[Len(blend_a)] # blend_a[Len(blend_a) - 1]
    /\ blend_out.value # blend_b

---------------------------------------------------------------------------
(* One tiled call, loop iteration by loop iteration: how many transform    *)
(* outputs are held in `rows` (tiles) and `row` (segments) before the      *)
(* second loop blends and crops them.                                      *)

StepSampleVolumes == {x \in SampleVolumes : x[3] = SpatialScale * 8}

StepLatentVolumes == {z \in LatentVolumes : z[3] = 8}

\* any policy the configuration calls can leave
StepInit ==
    /\ tile_sample_min_size \in SampleSizes
    /\ tile_latent_min_size = tile_sample_min_size \div SpatialScale
    /\ tile_overlap_factor \in OverlapFactors
    /\ z_sample_size \in ZSizes
    /\ use_z_tiling \in {FALSE, z_sample_size > 1}
    /\ use_hw_tiling \in BOOLEAN
    /\ decoder_params \in BOOLEAN
    /\ last = idle
    /\ BlendIdle
    /\ StepIdle

\* the window the tiled loops work on: the current temporal segment, or
\* the whole volume
step_window ==
    IF job.z
    THEN z_window(job.op, job.x, z_origins(job.op, job.x)[seg_done + 1])
    ELSE job.x

\* number of tiles of the grid of a window: len(rows) * len(rows[0])
grid_size(op, w) ==
    LET ov == IF op = "encode" THEN hw_encode_overlap_size
              ELSE hw_decode_overlap_size
    IN  Len(tile_origins(w[2], ov)) * Len(tile_origins(w[3], ov))

\* the number of temporal segments of the call
segment_count == IF job.z THEN Len(z_origins(job.op, job.x)) ELSE 0

\* the second loop starting as soon as one tile is there
hw_first_loop_streams(n, grid) == n >= Min(1, grid)

\* the first loop over the grid has ended
hw_first_loop_ended(n, grid) == n = grid

\* the first loop over the segments has ended
z_first_loop_ended(n, count) == n = count

StepEncode(x) ==
    /\ pc = "idle"
    /\ job' = [op |-> "encode", x |-> x, z |-> z_tiling_engaged(x),
               hw |-> IF z_tiling_engaged(x) THEN use_hw_tiling
                      ELSE encode_uses_hw(x)]
    /\ pc' = IF z_tiling_engaged(x) THEN "z_loop"
             ELSE IF encode_uses_hw(x) THEN "hw_loop" ELSE "direct"
    /\ UNCHANGED <<policy_vars, decoder_params, last, blend_vars, produced,
                   folded, seg_done, seg_folded>>

StepDecode(z) ==
    /\ pc = "idle"
    /\ job' = [op |-> "decode", x |-> z, z |-> z_tiling_engaged(z),
               hw |-> IF z_tiling_engaged(z) THEN use_hw_tiling
                      ELSE decode_uses_hw(z)]
    /\ pc' = IF z_tiling_engaged(z) THEN "z_loop"
             ELSE IF decode_uses_hw(z) THEN "hw_loop" ELSE "direct"
    /\ UNCHANGED <<policy_vars, decoder_params, last, blend_vars, produced,
                   folded, seg_done, seg_folded>>

\* for i in range(0, T, overlap_size): cut the window, go to the delegate
ZNextSegment ==
    /\ pc = "z_loop"
    /\ ~z_first_loop_ended(seg_done, segment_count)
    /\ pc' = IF job.hw THEN "hw_loop" ELSE "direct"
    /\ UNCHANGED <<policy_vars, decoder_params, last, blend_vars, job,
                   produced, folded, seg_done, seg_folded>>

\* first loop of _hw_tiled_encode / _hw_tiled_decode: transform one tile
\* and append it to its row
TransformTile ==
    /\ pc = "hw_loop"
    /\ ~hw_first_loop_ended(produced, grid_size(job.op, step_window))
    /\ IF job.op = "decode" /\ ~decoder_params
       THEN pc' = "raised" /\ UNCHANGED produced
       ELSE pc' = pc /\ produced' = produced + 1
    /\ UNCHANGED <<policy_vars, decoder_params, last, blend_vars, job,
                   folded, seg_done, seg_folded>>

HwStartCompose ==
    /\ pc = "hw_loop"
    /\ hw_first_loop_ended(produced, grid_size(job.op, step_window))
    /\ pc' = "hw_compose"
    /\ UNCHANGED <<policy_vars, decoder_params, last, blend_vars, job,
                   produced, folded, seg_done, seg_folded>>

\* second loop: blend one tile with the tile above and the tile to the
\* left, crop it, append it to the result row
BlendCropTile ==
    /\ pc = "hw_compose"
    /\ folded < grid_size(job.op, step_window)
    /\ folded' = folded + 1
    /\ UNCHANGED <<policy_vars, decoder_params, last, blend_vars, pc, job,
                   produced, seg_done, seg_folded>>

\* torch.cat and return: rows goes out of scope; a temporal caller appends
\* the result to row
HwReturn ==
    /\ pc = "hw_compose"
    /\ folded = grid_size(job.op, step_window)
    /\ produced' = 0
    /\ folded' = 0
    /\ IF job.z
       THEN pc' = "z_loop" /\ seg_done' = seg_done + 1
       ELSE pc' = "done" /\ UNCHANGED seg_done
    /\ UNCHANGED <<policy_vars, decoder_params, last, blend_vars, job,
                   seg_folded>>

\* _encode / _decode on the window
DirectTransform ==
    /\ pc = "direct"
    /\ IF job.z
       THEN pc' = "z_loop" /\ seg_done' = seg_done + 1
       ELSE pc' = "done" /\ UNCHANGED seg_done
    /\ UNCHANGED <<policy_vars, decoder_params, last, blend_vars, job,
                   produced, folded, seg_folded>>

ZStartCompose ==
    /\ pc = "z_loop"
    /\ z_first_loop_ended(seg_done, segment_count)
    /\ pc' = "z_compose"
    /\ UNCHANGED <<policy_vars, decoder_params, last, blend_vars, job,
                   produced, folded, seg_done, seg_folded>>

\* second loop of the temporal path: blend_z with the previous segment,
\* crop, append to result_row
ZBlendCrop ==
    /\ pc = "z_compose"
    /\ seg_folded < segment_count
    /\ seg_folded' = seg_folded + 1
    /\ UNCHANGED <<policy_vars, decoder_params, last, blend_vars, pc, job,
                   produced, folded, seg_done>>

ZReturn ==
    /\ pc = "z_compose"
    /\ seg_folded = segment_count
    /\ pc' = "done"
    /\ UNCHANGED <<policy_vars, decoder_params, last, blend_vars, job,
                   produced, folded, seg_done, seg_folded>>

\* the call returns or raises: nothing of it is held any more
StepReturn ==
    /\ pc \in {"done", "raised"}
    /\ pc' = "idle"
    /\ job' = <<>>
    /\ produced' = 0
    /\ folded' = 0
    /\ seg_done' = 0
    /\ seg_folded' = 0
    /\ UNCHANGED <<policy_vars, decoder_params, last, blend_vars>>

StepNext ==
    \/ \E x \in StepSampleVolumes : StepEncode(x)
    \/ \E z \in StepLatentVolumes : StepDecode(z)
    \/ ZNextSegment
    \/ TransformTile
    \/ HwStartCompose
    \/ BlendCropTile
    \/ HwReturn
    \/ DirectTransform
    \/ ZStartCompose
    \/ ZBlendCrop
    \/ ZReturn
    \/ StepReturn

StepSpec == StepInit /\ [][StepNext]_vars

\* transform outputs held and not yet blended and cropped into the
\* composite: tiles of the grid, segments of the sequence
HeldTiles == produced - folded

HeldSegments == seg_done - seg_folded

\* C9 as stated: at every point of a tiled call at most one transform
\* output is held that is not yet folded into the composite.
C9_AtMostOneHeld == HeldTiles + HeldSegments <= 1

\* C9 amended: the transform outputs held and not yet folded are at most
\* the tiles of the current grid plus the segments of the sequence, and
\* that many are held: blending starts only when every tile of the grid
\* (every segment of the sequence) has been transformed, so the number
\* grows with the grid and with the sequence.
C9_HeldIsWholeGrid ==
    /\ pc \in {"hw_loop", "hw_compose"} =>
          HeldTiles <= grid_size(job.op, step_window)
    /\ pc = "hw_compose" => produced = grid_size(job.op, step_window)
    /\ pc \in {"z_loop", "z_compose", "hw_loop", "hw_compose", "direct"} =>
          HeldSegments <= segment_count
    /\ pc = "z_compose" => seg_done = segment_count
    /\ pc \in {"idle", "done", "raised"} => HeldTiles = 0

\* a grid of 9 tiles, all held when the first is about to be blended,
\* with two segments held already
C9_Witness ==
    /\ pc = "hw_compose"
    /\ folded = 0
    /\ HeldTiles >= 9
    /\ HeldSegments >= 2

====
